---- MODULE Spec2Model ----
(***************************************************************************)
(* A model of generate_icons.py: the __main__ block (existence checks,     *)
(* call of the renderer, exit status) and generate_icons (open, convert    *)
(* to RGBA, one pass over UNIQUE_SIZES with resize / crop / paste / save   *)
(* inside a try block that returns False on the first error).              *)
(*                                                                         *)
(* The file system is modelled by what the program can observe or change:  *)
(* whether the source path exists and what Pillow can do with it, what     *)
(* sits at the output path, and the named files of the output directory.   *)
(* The library calls (Image.open, convert, resize, crop, paste, save) are  *)
(* modelled by their outcome: they return, or they raise. The prints that  *)
(* carry a mark (check mark: lines 114, 136; cross: lines 117, 138) raise  *)
(* when the encoding of stdout has no such character. A print to a        *)
(* block-buffered stdout (file, pipe) only fills the buffer; a print to a  *)
(* line-buffered (terminal) or unbuffered (-u) stdout writes at once and   *)
(* raises when that write fails, which any write may. The interpreter      *)
(* flushes stdout last and exits with status 120 when text is still        *)
(* buffered and that flush fails. An uncaught exception has its traceback  *)
(* written to stderr, which is buffered by line unless python runs with    *)
(* -u: when that write fails the traceback stays in the buffer, the flush  *)
(* of stderr at exit fails too, and the status is 120 as well.             *)
(***************************************************************************)
EXTENDS Integers, Sequences, FiniteSets, TLC

VARIABLES
    pc,          \* position of the process: main, check_output, open, convert, loop, returned, raised, exited
    srcKind,     \* the source path: missing, undecodable (Image.open raises), truncated (opens, pixel data cannot be loaded), ok
    srcMode,     \* img.mode as read from the header: RGBA or RGB
    outKind,     \* the output path: missing, file (exists, not a directory), dir
    table,       \* the size table iterated by the loop, in iteration order
    scale,       \* scale_factor as a ratio num/den
    idx,         \* position of the for loop in the table
    dir,         \* the files of the output directory, by name
    dir0,        \* the files of the output directory when the run started
    ret,         \* outcome of generate_icons: none (not returned), true, false, raised
    exitStatus,  \* process exit status, -1 while the process runs
    log,         \* the per-size console lines printed so far
    stdoutEnc,   \* what the encoding of sys.stdout has of the two marks printed: ascii (neither), jisx0213 (the check mark only), utf8 (both)
    stdoutBuf,   \* how sys.stdout is buffered: block (file, pipe), line (terminal), none (python -u, which unbuffers sys.stderr too)
    pending,     \* whether text printed is still in the buffer of sys.stdout, unwritten
    raisedAt,    \* the entry and the step of the try block that raised, if one did
    geom         \* the locals of the latest loop iteration (content_size, crop box, paste offset, canvas)

vars == <<pc, srcKind, srcMode, outKind, table, scale, idx, dir, dir0, ret, exitStatus, log,
         stdoutEnc, stdoutBuf, pending, raisedAt, geom>>

\* what the run is given and never changes
env == <<srcKind, srcMode, outKind, table, scale, dir0, stdoutEnc, stdoutBuf>>

----------------------------------------------------------------------------
(* Bounds of the model *)

\* sizes 1..MaxSize are given to the renderer in the single-entry runs
MaxSize == 64

\* longest substituted size table
MaxEntries == 3

----------------------------------------------------------------------------
(* Data *)

\* the None of an entry that has no file name
None == "None"

Entry(s, f) == [size |-> s, filename |-> f]

\* the dict iterated by generate_icons, in insertion order
UNIQUE_SIZES ==
    << Entry(20, None),
       Entry(29, "writing shed iPhone Settings.png"),
       Entry(40, "writing shed spotlight.png"),
       Entry(58, "writing shed settings 2.png"),
       Entry(60, "writing shed spotlight 3.png"),
       Entry(76, "writing shed iPad.png"),
       Entry(80, "writing shed spolight 2.png"),
       Entry(87, "writing shed settings 3.png"),
       Entry(120, "writing shed iphone 2.png"),
       Entry(152, "writing shed ipad 2.png"),
       Entry(167, "writing shed iPad Pro 2.png"),
       Entry(180, "writing shed iphone 3.png"),
       Entry(1024, "writing shed 1024.png") >>

\* scale_factor=1.2, the default of generate_icons, used by __main__
DefaultScale == [num |-> 12, den |-> 10]

\* a file of the output directory that no size table names
OtherFile == "Contents.json"

PresentIdx(T) == {i \in 1..Len(T) : T[i].filename # None}

PresentNames(T) == {T[i].filename : i \in PresentIdx(T)}

Names(T) == PresentNames(T) \cup {OtherFile}

\* contents of a directory slot
Absent == [kind |-> "absent", w |-> 0, h |-> 0, idx |-> 0]
Old == [kind |-> "old", w |-> 0, h |-> 0, idx |-> 0]
Partial == [kind |-> "partial", w |-> 0, h |-> 0, idx |-> 0]

\* no step of the try block has raised
NoRaise == [idx |-> 0, step |-> "none"]

\* the locals before the first iteration
NoGeom == [size |-> 0, content_size |-> 0, cropped |-> FALSE,
           box |-> <<0, 0, 0, 0>>, paste |-> <<0, 0>>, canvas |-> <<0, 0>>]

----------------------------------------------------------------------------
(* The arithmetic of one iteration *)

\* content_size = int(size * scale_factor). For the ratios and sizes used
\* here the binary64 product truncates to the same integer as the exact one.
ContentSize(size, sf) ==
    IF size >= 0 THEN (size * sf.num) \div sf.den
                 ELSE -(((-size) * sf.num) \div sf.den)

\* paste_x = paste_y = (size - content_size) // 2
PasteOffset(size, cs) == (size - cs) \div 2

CropMarginNoHalf(cs, size) == cs - size

CropMarginZero(cs, size) == 0

\* crop_margin = (content_size - size) // 2
CropMargin(cs, size) == (cs - size) \div 2

\* the box given to scaled_content.crop
CropBox(cs, size) ==
    LET m == CropMargin(cs, size) IN <<m, m, m + size, m + size>>

CanvasOfContent(size, cs) == <<cs, cs>>

\* Image.new('RGBA', (size, size), (0, 0, 0, 0))
Canvas(size, cs) == <<size, size>>

\* the locals at the paste
Geometry(size, sf) ==
    LET cs == ContentSize(size, sf) IN
    IF cs > size
    THEN [size |-> size, content_size |-> cs, cropped |-> TRUE,
          box |-> CropBox(cs, size), paste |-> <<0, 0>>, canvas |-> Canvas(size, cs)]
    ELSE [size |-> size, content_size |-> cs, cropped |-> FALSE,
          box |-> <<0, 0, cs, cs>>,
          paste |-> <<PasteOffset(size, cs), PasteOffset(size, cs)>>,
          canvas |-> Canvas(size, cs)]

\* the image saved for entry i
Rendered(i, g) == [kind |-> "png", w |-> g.canvas[1], h |-> g.canvas[2], idx |-> i]

OutputPathFixed(filename) == OtherFile

\* os.path.join(output_dir, filename): the name inside the output directory
OutputPath(filename) == filename

SaveNoOverwrite(d, name, content) ==
    IF d[name].kind = "absent" THEN [d EXCEPT ![name] = content] ELSE d

\* final_image.save(output_path, 'PNG', optimize=True), returning
Save(d, name, content) == [d EXCEPT ![name] = content]

\* what a save that raises can leave behind: nothing touched, or the file
\* opened for writing and not completed
SaveFailed(d, name) ==
    IF outKind = "dir" THEN {d, [d EXCEPT ![name] = Partial]} ELSE {d}

\* the encoding of stdout has the check mark U+2713 (lines 114, 136)
HasCheck == stdoutEnc \in {"jisx0213", "utf8"}

\* the encoding of stdout has the cross U+2717 (lines 117, 138)
HasCross == stdoutEnc = "utf8"

\* what the write of a print can do: TRUE it returns, FALSE it raises
\* OSError. A block-buffered stdout is not written before the exit.
IoOutcomes == IF stdoutBuf = "block" THEN {TRUE} ELSE {TRUE, FALSE}

\* whether text is left in the buffer after a print, given what was left
\* before it, whether the line could be encoded and what its write did
PendingAfter(p, encodable, io) ==
    IF ~encodable THEN p
    ELSE IF stdoutBuf = "block" THEN TRUE
    ELSE IF stdoutBuf = "line" THEN ~io
    ELSE FALSE

\* the statuses the process can end with when the script asks for `status`
\* (sys.exit, or falling off the end): the interpreter flushes stdout last,
\* and exits with 120 when that flush fails
ExitWith(status, p) == IF p THEN {status, 120} ELSE {status}

\* whether the traceback of an uncaught exception is left in the buffer of
\* sys.stderr: the write to stderr may fail as any write may, and the text
\* then stays buffered unless stderr is unbuffered (python -u)
TracebackPending == IF stdoutBuf = "none" THEN {FALSE} ELSE {FALSE, TRUE}

\* the statuses the process can end with after an uncaught exception:
\* 1, or 120 when the flush of stdout or of stderr at exit fails
ExitUncaught(p) == UNION {ExitWith(1, p \/ t) : t \in TracebackPending}

\* the steps of the try block that can raise for this entry: the library
\* calls, and the print of the success line, which comes after the save
FailSteps(size, sf) ==
    IF srcKind = "truncated" \/ ContentSize(size, sf) < 1
    THEN {"resize"}
    ELSE {"resize", "new", "paste", "save"}
         \cup (IF ContentSize(size, sf) > size THEN {"crop"} ELSE {})
         \cup (IF outKind = "dir" /\ (~HasCheck \/ FALSE \in IoOutcomes)
               THEN {"print"} ELSE {})

\* the try block cannot reach its end, whatever else the environment does
MustFail(size, sf) ==
    \/ srcKind = "truncated"
    \/ ContentSize(size, sf) < 1
    \/ outKind # "dir"
    \/ ~HasCheck

----------------------------------------------------------------------------
(* __main__ *)

\* if not os.path.exists(source): print, sys.exit(1)
\* (a print that raises is uncaught: status 1 as well)
MainCheckSource ==
    /\ pc = "main"
    /\ IF srcKind = "missing"
       THEN \E io \in IoOutcomes :
               /\ pending' = PendingAfter(pending, TRUE, io)
               /\ exitStatus' \in (IF io THEN ExitWith(1, pending')
                                         ELSE ExitUncaught(pending'))
               /\ pc' = "exited"
       ELSE pc' = "check_output" /\ UNCHANGED <<exitStatus, pending>>
    /\ UNCHANGED <<env, idx, dir, ret, log, geom, raisedAt>>

\* if not os.path.exists(output): print, sys.exit(1); otherwise the
\* "Generating app icons" line is printed (a print that raises ends the
\* process, uncaught) and generate_icons is called
MainCheckOutput ==
    /\ pc = "check_output"
    /\ \E io \in IoOutcomes :
          /\ pending' = PendingAfter(pending, TRUE, io)
          /\ IF ~io
             THEN pc' = "exited" /\ exitStatus' \in ExitUncaught(pending')
             ELSE IF outKind = "missing"
             THEN pc' = "exited" /\ exitStatus' \in ExitWith(1, pending')
             ELSE pc' = "open" /\ UNCHANGED exitStatus
    /\ UNCHANGED <<env, idx, dir, ret, log, geom, raisedAt>>

\* if generate_icons(...): print the success line and fall off the end
\* (status 0); else print the failure line and sys.exit(1). A print that
\* raises is uncaught: traceback, status 1 unless a flush at exit fails.
MainExit ==
    /\ pc = "returned"
    /\ pc' = "exited"
    /\ \E io \in IoOutcomes :
          IF ret = "true"
          THEN /\ pending' = PendingAfter(pending, HasCheck, io)
               /\ exitStatus' \in (IF HasCheck /\ io THEN ExitWith(0, pending')
                                                    ELSE ExitUncaught(pending'))
          ELSE /\ pending' = PendingAfter(pending, HasCross, io)
               /\ exitStatus' \in (IF HasCross /\ io THEN ExitWith(1, pending')
                                                    ELSE ExitUncaught(pending'))
    /\ UNCHANGED <<env, idx, dir, ret, log, geom, raisedAt>>

\* an exception that leaves generate_icons is caught by nobody: the
\* interpreter writes the traceback to stderr and exits with status 1, or
\* 120 when a flush at exit fails
MainUncaught ==
    /\ pc = "raised"
    /\ pc' = "exited"
    /\ exitStatus' \in ExitUncaught(pending)
    /\ UNCHANGED <<env, idx, dir, ret, log, geom, raisedAt, pending>>

----------------------------------------------------------------------------
(* generate_icons *)

\* try: img = Image.open(...); print the two header lines
\* except Exception: print the error, return False.
\* A print that raises in the try block is caught like a failed open; when
\* the print of the handler raises, the exception leaves the function.
OpenSource ==
    /\ pc = "open"
    /\ \E ioTry \in IoOutcomes, ioHandler \in IoOutcomes :
          LET opens == srcKind \notin {"missing", "undecodable"}
              p == IF opens THEN PendingAfter(pending, TRUE, ioTry) ELSE pending
          IN IF opens /\ ioTry
             THEN pc' = "convert" /\ pending' = p /\ UNCHANGED ret
             ELSE /\ pending' = PendingAfter(p, TRUE, ioHandler)
                  /\ IF ioHandler
                     THEN pc' = "returned" /\ ret' = "false"
                     ELSE pc' = "raised" /\ ret' = "raised"
    /\ UNCHANGED <<env, idx, dir, exitStatus, log, geom, raisedAt>>

\* if img.mode != 'RGBA': img = img.convert('RGBA')   (outside any try block;
\* convert loads the pixel data and raises when it cannot)
ConvertRGBA ==
    /\ pc = "convert"
    /\ IF srcMode # "RGBA" /\ srcKind = "truncated"
       THEN pc' = "raised" /\ ret' = "raised" /\ UNCHANGED idx
       ELSE pc' = "loop" /\ idx' = 1 /\ UNCHANGED ret
    /\ UNCHANGED <<env, dir, exitStatus, log, geom, raisedAt, pending>>

SkipEntryBreak ==
    /\ pc = "loop"
    /\ idx <= Len(table)
    /\ table[idx].filename = None
    /\ pc' = "returned"
    /\ ret' = "true"
    /\ UNCHANGED <<env, idx, dir, exitStatus, log, geom, raisedAt, pending>>

\* if filename is None: continue
SkipEntry ==
    /\ pc = "loop"
    /\ idx <= Len(table)
    /\ table[idx].filename = None
    /\ idx' = idx + 1
    /\ UNCHANGED <<env, pc, dir, ret, exitStatus, log, geom, raisedAt, pending>>

\* the try block runs to its end: the file is saved and the line printed
RenderOk ==
    /\ pc = "loop"
    /\ idx <= Len(table)
    /\ table[idx].filename # None
    /\ ~MustFail(table[idx].size, scale)
    /\ LET e == table[idx]
           g == Geometry(e.size, scale)
       IN /\ geom' = g
          /\ dir' = Save(dir, OutputPath(e.filename), Rendered(idx, g))
          /\ log' = Append(log, [idx |-> idx, size |-> e.size, ok |-> TRUE, step |-> "done"])
    /\ pending' = PendingAfter(pending, TRUE, TRUE)
    /\ idx' = idx + 1
    /\ UNCHANGED <<env, pc, ret, exitStatus, raisedAt>>

\* a step of the try block raises: except Exception: print the failure
\* line, return False. The failure line carries the cross: when that print
\* raises, it raises inside the handler and the exception leaves
\* generate_icons, with no failure line printed and nothing returned.
RenderFail ==
    /\ pc = "loop"
    /\ idx <= Len(table)
    /\ table[idx].filename # None
    /\ \E step \in FailSteps(table[idx].size, scale), io \in IoOutcomes :
          LET e == table[idx]
              g == Geometry(e.size, scale)
              p == IF step = "print" THEN PendingAfter(pending, HasCheck, FALSE)
                                     ELSE pending
          IN /\ geom' = IF step \in {"paste", "save", "print"} THEN g ELSE geom
             /\ IF step = "save"
                THEN dir' \in SaveFailed(dir, OutputPath(e.filename))
                ELSE IF step = "print"
                THEN dir' = Save(dir, OutputPath(e.filename), Rendered(idx, g))
                ELSE dir' = dir
             /\ raisedAt' = [idx |-> idx, step |-> step]
             /\ pending' = PendingAfter(p, HasCross, io)
             /\ IF HasCross /\ io
                THEN /\ log' = Append(log, [idx |-> idx, size |-> e.size,
                                            ok |-> FALSE, step |-> step])
                     /\ pc' = "returned"
                     /\ ret' = "false"
                ELSE /\ log' = log
                     /\ pc' = "raised"
                     /\ ret' = "raised"
    /\ UNCHANGED <<env, idx, exitStatus>>

\* the loop is exhausted: return True
LoopEnd ==
    /\ pc = "loop"
    /\ idx > Len(table)
    /\ pc' = "returned"
    /\ ret' = "true"
    /\ UNCHANGED <<env, idx, dir, exitStatus, log, geom, raisedAt, pending>>

----------------------------------------------------------------------------
(* Specifications *)

SrcKinds == {"missing", "undecodable", "truncated", "ok"}

SrcModes == {"RGBA", "RGB"}

OutKinds == {"missing", "file", "dir"}

StdoutEncs == {"ascii", "jisx0213", "utf8"}

StdoutBufs == {"block", "line", "none"}

\* the directories a run can start from: empty, holding only a foreign file,
\* holding every icon and the foreign file, holding the icons only
InitialDirs(T) ==
    {[n \in Names(T) |-> IF n \in P THEN Old ELSE Absent] :
        P \in {{}, {OtherFile}, Names(T), PresentNames(T)}}

\* what every run starts from, whatever the table and the entry point
InitEnv ==
    /\ srcKind \in SrcKinds
    /\ srcMode \in SrcModes
    /\ outKind \in OutKinds
    /\ stdoutEnc \in StdoutEncs
    /\ stdoutBuf \in StdoutBufs
    /\ pending = FALSE
    /\ raisedAt = NoRaise
    /\ dir0 \in (IF outKind = "dir" THEN InitialDirs(table)
                                  ELSE {[n \in Names(table) |-> Absent]})
    /\ dir = dir0
    /\ idx = 0
    /\ ret = "none"
    /\ exitStatus = -1
    /\ log = <<>>
    /\ geom = NoGeom

\* the script run as a program
Init ==
    /\ table = UNIQUE_SIZES
    /\ scale = DefaultScale
    /\ pc = "main"
    /\ InitEnv

RenderNext ==
    \/ OpenSource
    \/ ConvertRGBA
    \/ SkipEntry
    \/ RenderOk
    \/ RenderFail
    \/ LoopEnd

Next ==
    \/ MainCheckSource
    \/ MainCheckOutput
    \/ RenderNext
    \/ MainExit
    \/ MainUncaught

Spec == Init /\ [][Next]_vars

\* sizes and names of the substituted tables
InjSizes == {0, 29, 60, 120}

InjNames == {None, "a.png", "b.png"}

\* dicts of at most MaxEntries entries: the keys are distinct, the names need not be
InjTables ==
    UNION {{t \in [1..n -> {Entry(s, f) : s \in InjSizes, f \in InjNames}] :
               \A i, j \in 1..n : i # j => t[i].size # t[j].size} :
           n \in 0..MaxEntries}

\* generate_icons called with UNIQUE_SIZES replaced by another dict
InitInj ==
    /\ table \in InjTables
    /\ scale = DefaultScale
    /\ pc = "open"
    /\ InitEnv

SpecInj == InitInj /\ [][RenderNext]_vars

\* scale factors given to generate_icons
ScaleFactors ==
    {[num |-> 12, den |-> 10], [num |-> 11, den |-> 10], [num |-> 5, den |-> 4],
     [num |-> 3, den |-> 2], [num |-> 2, den |-> 1]}

\* generate_icons called on a one-entry dict, with a scale factor
InitCrop ==
    /\ table \in {<<Entry(s, f)>> : s \in 1..MaxSize, f \in {None, "icon.png"}}
    /\ scale \in ScaleFactors
    /\ pc = "open"
    /\ InitEnv

SpecCrop == InitCrop /\ [][RenderNext]_vars

----------------------------------------------------------------------------
(* Properties *)

\* entry i was rendered and saved, and its line printed
Done(i) == \E k \in 1..Len(log) : log[k].idx = i /\ log[k].ok

\* entry i was rendered and its file saved
Saved(i) ==
    /\ dir[table[i].filename].kind = "png"
    /\ dir[table[i].filename].idx = i

\* the renderer has ended, by returning or by raising
Ended == ret # "none"

\* C1: when generate_icons has returned True, every entry of the size table
\* that has a file name has a file of exactly that name in the output
\* directory, and that file is a PNG of exactly size x size pixels.
C1_AllIconsProduced ==
    ret = "true" =>
        \A i \in PresentIdx(table) :
            LET f == dir[table[i].filename] IN
            /\ f.kind = "png"
            /\ f.w = table[i].size
            /\ f.h = table[i].size

C1_Witness ==
    /\ pc = "exited"
    /\ ret = "true"
    /\ Cardinality(PresentIdx(table)) = 12
    /\ dir["writing shed 1024.png"].w = 1024
    /\ dir["writing shed iPhone Settings.png"].w = 29

\* C2: once resize, canvas creation, crop, paste or save has raised for an
\* entry, the loop stands at that entry, no line is printed and no file is
\* saved for a later entry, generate_icons has returned False, and the
\* process, once it has exited, has exited with a status other than 0.
C2_FailFast ==
    raisedAt.step \in {"resize", "new", "crop", "paste", "save"} =>
        /\ idx = raisedAt.idx
        /\ \A j \in 1..Len(log) : log[j].idx <= raisedAt.idx
        /\ \A n \in DOMAIN dir : dir[n].kind = "png" => dir[n].idx < raisedAt.idx
        /\ ret = "false"
        /\ pc \in {"returned", "exited"}
        /\ pc = "exited" => exitStatus # 0

\* C3: an entry without a file name is never attempted and no file comes
\* from it; the entries after it are processed all the same: while the loop
\* runs every named entry already passed has been rendered, a True result
\* means every named entry was rendered, and a False result once the loop
\* has started always comes from a render error, never from a skipped entry.
C3_AbsentSkipped ==
    /\ \A k \in 1..Len(log) : table[log[k].idx].filename # None
    /\ \A n \in DOMAIN dir : dir[n].kind = "png" => table[dir[n].idx].filename # None
    /\ pc = "loop" => \A i \in PresentIdx(table) : i < idx => Done(i)
    /\ ret = "true" => \A i \in PresentIdx(table) : Done(i)
    /\ (ret = "false" /\ idx >= 1) =>
           (log # <<>> /\ ~log[Len(log)].ok)

C3_Witness ==
    /\ ret = "true"
    /\ \E i, j \in 1..Len(table) :
          /\ i < j
          /\ table[i].filename = None
          /\ table[j].filename # None
          /\ Done(j)
          /\ dir[table[j].filename].idx = j
    /\ \A n \in DOMAIN dir : dir[n].kind = "png" => table[dir[n].idx].filename = n

\* C4: when two entries carry the same file name and generate_icons has
\* returned True, the file of that name is the render of the last entry, in
\* iteration order, that carries the name.
C4_LastWriteWins ==
    ret = "true" =>
        \A i, j \in PresentIdx(table) :
            (/\ i < j
             /\ table[i].filename = table[j].filename
             /\ \A m \in PresentIdx(table) :
                    m > j => table[m].filename # table[j].filename)
            => /\ dir[table[j].filename] =
                      [kind |-> "png", w |-> table[j].size, h |-> table[j].size, idx |-> j]
               /\ Cardinality({n \in DOMAIN dir :
                      n = table[j].filename /\ dir[n].kind # "absent"}) = 1

C4_Witness ==
    /\ ret = "true"
    /\ \E i, j \in PresentIdx(table) :
          /\ i < j
          /\ table[i].filename = table[j].filename
          /\ table[i].size # table[j].size
          /\ Done(i)
          /\ Done(j)
          /\ dir[table[j].filename].w = table[j].size

\* C5: when the source path does not exist, or no directory exists at the
\* output path, the process never reaches generate_icons: it exits with
\* status 1, nothing is attempted, no line is printed for a size and the
\* directory is untouched.
C5_MissingPathsExitEarly ==
    (srcKind = "missing" \/ outKind # "dir") =>
        /\ pc \in {"main", "check_output", "exited"}
        /\ ret = "none"
        /\ log = <<>>
        /\ raisedAt = NoRaise
        /\ geom = NoGeom
        /\ dir = dir0
        /\ pc = "exited" => exitStatus = 1

\* the source path exists, the output directory exists, Image.open succeeded
\* and every named entry was rendered and saved
AllSucceeded ==
    /\ srcKind # "missing"
    /\ outKind = "dir"
    /\ srcKind # "undecodable"
    /\ \A i \in PresentIdx(table) : Saved(i)

\* C6: the exit status is 0 or 1, and it is 0 exactly when the source path
\* exists, the output directory exists, Image.open succeeded and every named
\* entry was rendered and saved.
C6_ExitStatus ==
    pc = "exited" =>
        /\ exitStatus \in {0, 1}
        /\ exitStatus = 0 <=> AllSucceeded

\* C7: when the source exists and cannot be opened or decoded, the renderer
\* ends by returning False, having processed no entry and written no file.
C7_SourceUnavailableReturnsFalse ==
    (srcKind \in {"undecodable", "truncated"} /\ Ended) =>
        /\ ret = "false"
        /\ log = <<>>
        /\ dir = dir0

\* C8: every file whose name is not a file name of the size table is as it
\* was when the run started, and no file that existed is gone, in every
\* state of the run, whether it goes on, succeeds or aborts.
C8_OnlyTableFilesWritten ==
    /\ DOMAIN dir = DOMAIN dir0
    /\ \A n \in DOMAIN dir : n \notin PresentNames(table) => dir[n] = dir0[n]
    /\ \A n \in DOMAIN dir : dir0[n].kind # "absent" => dir[n].kind # "absent"

C8_Witness ==
    /\ pc = "exited"
    /\ exitStatus = 1
    /\ dir0[OtherFile] = Old
    /\ dir[OtherFile] = Old
    /\ \E n \in PresentNames(table) : dir0[n].kind = "absent" /\ dir[n].kind = "png"
    /\ \E n \in PresentNames(table) : dir[n].kind = "partial"

\* C9: for a size >= 1 whose content size floor(size * scaleFactor) exceeds
\* it, the crop box is (m, m, m + size, m + size) with
\* m = floor((contentSize - size) / 2), it is size x size, it lies inside
\* the content, the paste offset is (0, 0); size 60 at 1.2 gives (6, 6, 66, 66).
C9_CropRectangle ==
    (geom.size >= 1 /\ geom.content_size > geom.size) =>
        LET size == geom.size
            cs == geom.content_size
            m == geom.box[1]
        IN /\ cs * scale.den <= size * scale.num
           /\ size * scale.num < (cs + 1) * scale.den
           /\ 2 * m <= cs - size
           /\ cs - size <= 2 * m + 1
           /\ geom.cropped
           /\ geom.box = <<m, m, m + size, m + size>>
           /\ geom.box[3] - geom.box[1] = size
           /\ geom.box[4] - geom.box[2] = size
           /\ 0 <= m
           /\ m + size <= cs
           /\ geom.paste = <<0, 0>>
           /\ geom.canvas = <<size, size>>
           /\ (size = 60 /\ scale = DefaultScale) => geom.box = <<6, 6, 66, 66>>

C9_Witness ==
    /\ ret = "true"
    /\ scale = DefaultScale
    /\ geom.size = 60
    /\ geom.content_size = 72
    /\ geom.box = <<6, 6, 66, 66>>
    /\ dir["icon.png"].w = 60

\* C10, as claimed: the margin cut from the left equals the one cut from
\* the right, and the one cut from the top equals the one cut from the bottom.
C10_SymmetricCrop ==
    geom.cropped =>
        /\ geom.box[1] = geom.content_size - geom.box[3]
        /\ geom.box[2] = geom.content_size - geom.box[4]

\* C10, amended: left and top margins are equal, right and bottom margins
\* are equal, and the right/bottom margin exceeds the left/top one by 0 when
\* contentSize - size is even and by exactly 1 when it is odd.
C10_NearSymmetricCrop ==
    geom.cropped =>
        LET l == geom.box[1]
            t == geom.box[2]
            r == geom.content_size - geom.box[3]
            b == geom.content_size - geom.box[4]
        IN /\ l = t
           /\ r = b
           /\ r - l = (geom.content_size - geom.size) % 2

C10_Witness ==
    /\ geom.cropped
    /\ geom.size = 29
    /\ geom.content_size = 34
    /\ geom.box[1] = 2
    /\ geom.content_size - geom.box[3] = 3

====
